---------------------------- MODULE Spec2Model ----------------------------
(***************************************************************************)
(* Model of the MyPocket ARVS insights engine (services/arvsEngine.ts,     *)
(* kept here as src/unnamed/part_000) and of the part of AppContext.tsx    *)
(* that calls it.                                                          *)
(*                                                                         *)
(* Conventions.                                                            *)
(*  - An optional field (description?, converted_amount?, recurring_type?, *)
(*    related_expense_id?) is a sequence: << >> when absent, <<v>> when    *)
(*    present.                                                             *)
(*  - Strings are TLA+ strings and template literals are concatenations,   *)
(*    so deduplication keys are computed as the code computes them.        *)
(*  - Time is a day count.  A month has DaysPerMonth days and a year       *)
(*    MonthsPerYear months; Date#getFullYear, Date#getMonth and            *)
(*    new Date(y, m, 1) are computed from the day count.                   *)
(*  - Amounts and limits are integers; the float expression                *)
(*    (spent / limit) * 100 >= t is decided exactly, with the IEEE results *)
(*    of a division by zero (Infinity, -Infinity, NaN) kept apart.         *)
(*  - The message of an insight is left out: nothing reads it.             *)
(***************************************************************************)
EXTENDS Integers, Sequences, FiniteSets, TLC

(***************************************************************************)
(* Bounds of the model.                                                    *)
(***************************************************************************)
DaysPerMonth == 2
MonthsPerYear == 2
BaseYear == 2023
MaxExpenses == 2
MaxBudgets == 1
MaxExisting == 1
MaxRuns == 2
MaxFetches == 1
MaxStore == 2

MaxKeyed == 2
MaxSeries == 3

(***************************************************************************)
(* Generic helpers on sequences.                                           *)
(***************************************************************************)
Range(s) == { s[i] : i \in 1..Len(s) }

SeqsUpTo(S, n) == UNION { [1..k -> S] : k \in 0..n }

RECURSIVE Reverse(_)
Reverse(s) == IF s = << >> THEN << >> ELSE Append(Reverse(Tail(s)), Head(s))

(***************************************************************************)
(* Date arithmetic used by checkBudgetWarnings.                            *)
(***************************************************************************)
getFullYear(t) == BaseYear + (t \div (DaysPerMonth * MonthsPerYear))

getMonth(t) == (t \div DaysPerMonth) % MonthsPerYear

\* new Date(now.getFullYear(), now.getMonth(), 1)
firstDayOfMonth(t) == (t \div DaysPerMonth) * DaysPerMonth

\* The month key without the year.
monthKeyNoYear(t) == ToString(getMonth(t))

\* `${now.getFullYear()}-${now.getMonth()}`
monthKey(t) == ToString(getFullYear(t)) \o "-" \o ToString(getMonth(t))

(***************************************************************************)
(* hasRecentInsight                                                        *)
(***************************************************************************)
hasRecentInsightNoType(existingInsights, type, uniqueKey) ==
    \E i \in 1..Len(existingInsights) :
        existingInsights[i].related_category = uniqueKey

\* hasRecentInsight finding nothing, whatever the store holds.
hasRecentInsightNone(existingInsights, type, uniqueKey) == FALSE

hasRecentInsight(existingInsights, type, uniqueKey) ==
    \E i \in 1..Len(existingInsights) :
        /\ existingInsights[i].insight_type = type
        /\ existingInsights[i].related_category = uniqueKey

(***************************************************************************)
(* checkBudgetWarnings                                                     *)
(***************************************************************************)
\* e.converted_amount || e.amount : a converted amount that is absent, null
\* or 0 is falsy and the raw amount is used.
amountOf(e) ==
    IF e.converted_amount # << >> /\ e.converted_amount[1] # 0
    THEN e.converted_amount[1]
    ELSE e.amount

\* expenses.filter(e => new Date(e.created_at) >= firstDayOfMonth)
monthExpenses(expenses, now) ==
    SelectSeq(expenses, LAMBDA e : e.created_at >= firstDayOfMonth(now))

RECURSIVE sumAmounts(_)
sumAmounts(es) ==
    IF es = << >> THEN 0 ELSE amountOf(Head(es)) + sumAmounts(Tail(es))

\* spendingByCategory[category] || 0
spendingByCategory(expenses, now, category) ==
    sumAmounts(SelectSeq(monthExpenses(expenses, now),
                         LAMBDA e : e.category = category))

\* The IEEE value class of (spent / limit) * 100.
percentageClass(spent, limit) ==
    IF limit # 0 THEN "finite"
    ELSE IF spent > 0 THEN "Infinity"
    ELSE IF spent < 0 THEN "-Infinity"
    ELSE "NaN"

\* The comparison with the threshold taken as a fraction: spent / limit * 100
\* compared with t / 100.
percentageAtLeastFraction(spent, limit, t) ==
    CASE percentageClass(spent, limit) = "Infinity"  -> TRUE
      [] percentageClass(spent, limit) = "-Infinity" -> FALSE
      [] percentageClass(spent, limit) = "NaN"       -> FALSE
      [] OTHER -> IF limit > 0 THEN spent * 100 * 100 >= t * limit
                               ELSE spent * 100 * 100 <= t * limit

\* (spent / limit) * 100 >= t, for a threshold t > 0
percentageAtLeast(spent, limit, t) ==
    CASE percentageClass(spent, limit) = "Infinity"  -> TRUE
      [] percentageClass(spent, limit) = "-Infinity" -> FALSE
      [] percentageClass(spent, limit) = "NaN"       -> FALSE
      [] OTHER -> IF limit > 0 THEN spent * 100 >= t * limit
                               ELSE spent * 100 <= t * limit

key100Of(category, now) == "BUDGET_100_" \o category \o "_" \o monthKey(now)

key80Of(category, now) == "BUDGET_80_" \o category \o "_" \o monthKey(now)

\* An insight draft: Omit<Insight, 'id' | 'user_id' | 'created_at' | 'is_read'>
draft(type, key, expenseId) ==
    [insight_type |-> type, related_category |-> key,
     related_expense_id |-> expenseId]

\* The body of budgets.forEach: the drafts one budget pushes.
budgetDraftsNoElse(budget, expenses, existingInsights, now) ==
    LET spent == spendingByCategory(expenses, now, budget.category)
        key100 == key100Of(budget.category, now)
        key80 == key80Of(budget.category, now)
    IN  (IF /\ percentageAtLeast(spent, budget.limit, 100)
            /\ ~hasRecentInsight(existingInsights, "BUDGET_WARNING", key100)
         THEN << draft("BUDGET_WARNING", key100, << >>) >> ELSE << >>)
        \o
        (IF /\ percentageAtLeast(spent, budget.limit, 80)
            /\ ~hasRecentInsight(existingInsights, "BUDGET_WARNING", key80)
            /\ ~hasRecentInsight(existingInsights, "BUDGET_WARNING", key100)
         THEN << draft("BUDGET_WARNING", key80, << >>) >> ELSE << >>)

\* The body of budgets.forEach with the 100-key test of the 80 branch dropped.
budgetDraftsNo100Check(budget, expenses, existingInsights, now) ==
    LET spent == spendingByCategory(expenses, now, budget.category)
        key100 == key100Of(budget.category, now)
        key80 == key80Of(budget.category, now)
    IN  IF percentageAtLeast(spent, budget.limit, 100)
        THEN IF ~hasRecentInsight(existingInsights, "BUDGET_WARNING", key100)
             THEN << draft("BUDGET_WARNING", key100, << >>) >>
             ELSE << >>
        ELSE IF percentageAtLeast(spent, budget.limit, 80)
        THEN IF ~hasRecentInsight(existingInsights, "BUDGET_WARNING", key80)
             THEN << draft("BUDGET_WARNING", key80, << >>) >>
             ELSE << >>
        ELSE << >>

budgetDrafts(budget, expenses, existingInsights, now) ==
    LET spent == spendingByCategory(expenses, now, budget.category)
        key100 == key100Of(budget.category, now)
        key80 == key80Of(budget.category, now)
    IN  IF percentageAtLeast(spent, budget.limit, 100)
        THEN IF ~hasRecentInsight(existingInsights, "BUDGET_WARNING", key100)
             THEN << draft("BUDGET_WARNING", key100, << >>) >>
             ELSE << >>
        ELSE IF percentageAtLeast(spent, budget.limit, 80)
        THEN IF /\ ~hasRecentInsight(existingInsights, "BUDGET_WARNING", key80)
                /\ ~hasRecentInsight(existingInsights, "BUDGET_WARNING", key100)
             THEN << draft("BUDGET_WARNING", key80, << >>) >>
             ELSE << >>
        ELSE << >>

RECURSIVE forEachBudget(_, _, _, _)
forEachBudget(budgets, expenses, existingInsights, now) ==
    IF budgets = << >> THEN << >>
    ELSE budgetDrafts(Head(budgets), expenses, existingInsights, now)
         \o forEachBudget(Tail(budgets), expenses, existingInsights, now)

checkBudgetWarnings(expenses, budgets, existingInsights, now) ==
    IF Len(budgets) = 0 THEN << >>
    ELSE forEachBudget(budgets, expenses, existingInsights, now)

(***************************************************************************)
(* checkPriceIncreases                                                     *)
(***************************************************************************)
\* e.recurring_type && e.recurring_type !== 'none'
isRecurring(e) ==
    /\ e.recurring_type # << >>
    /\ e.recurring_type[1] # ""
    /\ e.recurring_type[1] # "none"

\* `${expense.description || ''}::${expense.category}`
getRecurringKey(expense) ==
    (IF expense.description = << >> THEN "" ELSE expense.description[1])
    \o "::" \o expense.category

\* The keys of recurringGroups in insertion order (a Map keeps it).
RECURSIVE groupKeys(_, _)
groupKeys(es, seen) ==
    IF es = << >> THEN << >>
    ELSE LET k == getRecurringKey(Head(es))
         IN  IF k \in seen THEN groupKeys(Tail(es), seen)
             ELSE << k >> \o groupKeys(Tail(es), seen \cup {k})

\* Array#sort with (a, b) => time(b) - time(a): a stable insertion of x into
\* a list already sorted by descending creation time.
RECURSIVE insertDesc(_, _)
insertDesc(x, sorted) ==
    IF sorted = << >> THEN << x >>
    ELSE IF Head(sorted).created_at >= x.created_at
         THEN << Head(sorted) >> \o insertDesc(x, Tail(sorted))
         ELSE << x >> \o sorted

RECURSIVE sortDesc(_)
sortDesc(group) ==
    IF group = << >> THEN << >>
    ELSE LET n == Len(group)
         IN  insertDesc(group[n], sortDesc(SubSeq(group, 1, n - 1)))

priceDraftsNoCheck(group, existingInsights) ==
    IF Len(group) < 2 THEN << >>
    ELSE LET sortedGroup == sortDesc(group)
             latest == sortedGroup[1]
             previous == sortedGroup[2]
             uniqueKey == "PRICE_INCREASE_" \o ToString(latest.id)
         IN  IF latest.amount > previous.amount
             THEN << draft("PRICE_INCREASE", uniqueKey, << latest.id >>) >>
             ELSE << >>

\* The body of recurringGroups.forEach made retroactive: when the latest
\* member shows no increase, the transition before it is examined.
priceDraftsRetroactive(group, existingInsights) ==
    IF Len(group) < 2 THEN << >>
    ELSE LET sortedGroup == sortDesc(group)
             k == IF \/ sortedGroup[1].amount > sortedGroup[2].amount
                     \/ Len(group) < 3
                  THEN 1 ELSE 2
             latest == sortedGroup[k]
             previous == sortedGroup[k + 1]
             uniqueKey == "PRICE_INCREASE_" \o ToString(latest.id)
         IN  IF /\ latest.amount > previous.amount
                /\ ~\E i \in 1..Len(existingInsights) :
                      /\ existingInsights[i].related_expense_id = << latest.id >>
                      /\ existingInsights[i].insight_type = "PRICE_INCREASE"
             THEN << draft("PRICE_INCREASE", uniqueKey, << latest.id >>) >>
             ELSE << >>

\* The body of recurringGroups.forEach with >= in place of >.
priceDraftsNonStrict(group, existingInsights) ==
    IF Len(group) < 2 THEN << >>
    ELSE LET sortedGroup == sortDesc(group)
             latest == sortedGroup[1]
             previous == sortedGroup[2]
             uniqueKey == "PRICE_INCREASE_" \o ToString(latest.id)
         IN  IF /\ latest.amount >= previous.amount
                /\ ~\E i \in 1..Len(existingInsights) :
                      /\ existingInsights[i].related_expense_id = << latest.id >>
                      /\ existingInsights[i].insight_type = "PRICE_INCREASE"
             THEN << draft("PRICE_INCREASE", uniqueKey, << latest.id >>) >>
             ELSE << >>

\* The body of recurringGroups.forEach: the drafts one group pushes.
priceDrafts(group, existingInsights) ==
    IF Len(group) < 2 THEN << >>
    ELSE LET sortedGroup == sortDesc(group)
             latest == sortedGroup[1]
             previous == sortedGroup[2]
             uniqueKey == "PRICE_INCREASE_" \o ToString(latest.id)
         IN  IF /\ latest.amount > previous.amount
                /\ ~\E i \in 1..Len(existingInsights) :
                      /\ existingInsights[i].related_expense_id = << latest.id >>
                      /\ existingInsights[i].insight_type = "PRICE_INCREASE"
             THEN << draft("PRICE_INCREASE", uniqueKey, << latest.id >>) >>
             ELSE << >>

RECURSIVE forEachGroup(_, _, _)
forEachGroup(keys, recurringExpenses, existingInsights) ==
    IF keys = << >> THEN << >>
    ELSE priceDrafts(SelectSeq(recurringExpenses,
                               LAMBDA e : getRecurringKey(e) = Head(keys)),
                     existingInsights)
         \o forEachGroup(Tail(keys), recurringExpenses, existingInsights)

checkPriceIncreases(allExpenses, existingInsights) ==
    LET recurringExpenses == SelectSeq(allExpenses, isRecurring)
    IN  forEachGroup(groupKeys(recurringExpenses, {}), recurringExpenses,
                     existingInsights)

(***************************************************************************)
(* The arrays checkPriceIncreases works on.  An array is a cell of a heap, *)
(* named by a reference: filter and the Map's groups allocate new cells,   *)
(* and Array#sort writes its result into the cell it is called on.         *)
(***************************************************************************)
groupRef(k) == "group" \o ToString(k)

\* group.sort called on the caller's array instead of the group's.
sortedRefCaller(k) == "allExpenses"

\* The array the k-th group.sort(...) is called on.
sortedRef(k) == groupRef(k)

RECURSIVE sortGroups(_, _, _)
sortGroups(heap, n, k) ==
    IF k > n THEN heap
    ELSE sortGroups(IF Len(heap[groupRef(k)]) < 2 THEN heap
                    ELSE [heap EXCEPT ![sortedRef(k)] = sortDesc(heap[sortedRef(k)])],
                    n, k + 1)

heapAfterPriceCheck(allExpenses) ==
    LET recurringExpenses == SelectSeq(allExpenses, isRecurring)
        keys == groupKeys(recurringExpenses, {})
        refs == {"allExpenses", "recurringExpenses"}
                \cup { groupRef(k) : k \in 1..Len(keys) }
        allocated ==
            [ r \in refs |->
                IF r = "allExpenses" THEN allExpenses
                ELSE IF r = "recurringExpenses" THEN recurringExpenses
                ELSE LET k == CHOOSE x \in 1..Len(keys) : groupRef(x) = r
                     IN  SelectSeq(recurringExpenses,
                                   LAMBDA e : getRecurringKey(e) = keys[k]) ]
    IN  sortGroups(allocated, Len(keys), 1)

\* The caller's expenses array once runArvsEngine has run its evaluators:
\* checkBudgetWarnings only reads it.
callerExpensesAfter(expenses) == heapAfterPriceCheck(expenses)["allExpenses"]

(***************************************************************************)
(* runArvsEngine, up to its await: the batch it hands to insert.           *)
(***************************************************************************)
\* i => ({...i, user_id: userId})
stamp(d, userId) ==
    [insight_type |-> d.insight_type, related_category |-> d.related_category,
     related_expense_id |-> d.related_expense_id, user_id |-> userId]

RECURSIVE stampAll(_, _)
stampAll(ds, userId) ==
    IF ds = << >> THEN << >>
    ELSE << stamp(Head(ds), userId) >> \o stampAll(Tail(ds), userId)

\* runArvsEngine with one newInsights list shared by the two evaluators: each
\* returns the list that holds the candidates of both.
allNewInsightsSharedList(expenses, budgets, existingInsights, userId, now) ==
    LET shared == checkBudgetWarnings(expenses, budgets, existingInsights, now)
                  \o checkPriceIncreases(expenses, existingInsights)
    IN  stampAll(shared, userId) \o stampAll(shared, userId)

allNewInsightsPriceFirst(expenses, budgets, existingInsights, userId, now) ==
    stampAll(checkPriceIncreases(expenses, existingInsights), userId)
    \o stampAll(checkBudgetWarnings(expenses, budgets, existingInsights, now), userId)

allNewInsights(expenses, budgets, existingInsights, userId, now) ==
    stampAll(checkBudgetWarnings(expenses, budgets, existingInsights, now), userId)
    \o stampAll(checkPriceIncreases(expenses, existingInsights), userId)


(***************************************************************************)
(* The state.                                                              *)
(***************************************************************************)
VARIABLES
    \* --- the engine harness: one call of runArvsEngine and its rerun ---
    argExpenses,    \* runArvsEngine's expenses argument
    argBudgets,     \* its budgets argument
    argExisting,    \* its existingInsights argument
    argNow,         \* what new Date() returns during the call
    enginePc,       \* "ready", "inserting" (awaiting insert) or "done"
    engineRound,    \* 1 for the first call, 2 for the rerun
    engineBatch,    \* allNewInsights of the current call
    engineResult,   \* "none" until the promise resolves, then "true"/"false"
    insertCalls,    \* the batches the current call handed to insert
    insertError,    \* whether the insert of the current call reported an error
    firstBatch,     \* allNewInsights of the first call, kept for the rerun
    deletedPairs,   \* history: the (insight_type, related_category) pairs whose
                    \* insights the user deleted since the last cycle ended
    \* --- the application: AppContextProvider, localStorage, the backend ---
    session,        \* whether the session prop is a Session (else null)
    isOffline,      \* useState isOffline
    loading,        \* useState loading
    expenses,       \* useState expenses
    insights,       \* useState insights
    budgets,        \* useState budgets
    expensesFrom,   \* where the expenses state was read from: "none", "cache", "backend"
    cache,          \* localStorage[CACHE_KEY]: << >> or << CachedData >>
    savedBudgets,   \* localStorage['myPocketBudgets']: << >> or << Budget[] >>
    dbExpenses,     \* the rows of the backend's expenses table, oldest first
    dbInsights,     \* the rows of the backend's insights table, oldest first
    fetches,        \* the fetchData calls awaiting their Promise.all
    runs,           \* the runArvsEngine calls of the effect that are in
                    \* flight, in the order they were made
    sequential,     \* history: every engine cycle so far completed (insert and
                    \* successful re-read) before the next one started
    invocations,    \* the runArvsEngine calls the last step made, each with
                    \* the state it was made in
    lastInsert,     \* the insert the last step resolved, if any: whether it
                    \* reported an error and what the engine then returned
    lastReread      \* the re-read the last step resolved, if any: whether it
                    \* reported an error and the batch its run had inserted

engineVars == << argExpenses, argBudgets, argExisting, argNow, enginePc,
                 engineRound, engineBatch, engineResult, insertCalls,
                 insertError, firstBatch, deletedPairs >>

appVars == << session, isOffline, loading, expenses, insights, budgets,
              expensesFrom, cache, savedBudgets, dbExpenses, dbInsights,
              fetches, runs, sequential, invocations, lastInsert,
              lastReread >>

vars == << engineVars, appVars >>

(***************************************************************************)
(* Input universes of the engine harness.                                  *)
(***************************************************************************)
userId == "u1"

\* The first day of the month the harness runs in.
ThisMonth == DaysPerMonth

expenseShape(amount, converted, category, description, created, recurring) ==
    [amount |-> amount, converted_amount |-> converted, category |-> category,
     description |-> description, created_at |-> created,
     recurring_type |-> recurring]

ExpenseShapes ==
    { expenseShape(1, << >>, "Food", << >>, ThisMonth - 1, << "monthly" >>),
      expenseShape(4, << >>, "Food", << >>, ThisMonth, << "monthly" >>),
      expenseShape(1, << 4 >>, "Food", << >>, ThisMonth, << "none" >>),
      expenseShape(1, << 0 >>, "Food", << >>, ThisMonth, << >>),
      expenseShape(1, << >>, "Fuel", << "Rent" >>, ThisMonth + 1, << "weekly" >>),
      expenseShape(4, << >>, "Fuel", << "Rent" >>, ThisMonth, << "weekly" >>) }

\* An expense list: the id of an expense is its position, so ids are unique.
withIds(shapes) ==
    [ i \in 1..Len(shapes) |->
        [id |-> i, amount |-> shapes[i].amount,
         converted_amount |-> shapes[i].converted_amount,
         category |-> shapes[i].category,
         description |-> shapes[i].description,
         created_at |-> shapes[i].created_at,
         recurring_type |-> shapes[i].recurring_type] ]

ExpenseLists == { withIds(s) : s \in SeqsUpTo(ExpenseShapes, MaxExpenses) }

BudgetUniverse ==
    { [id |-> "monthly-" \o c, category |-> c, limit |-> l] :
        c \in {"Food"}, l \in {0, 5} }
    \cup { [id |-> "monthly-Fuel", category |-> "Fuel", limit |-> 5] }

\* A budget list that holds two budgets of one category, as localStorage can:
\* runArvsEngine takes any Budget[].
TwinBudgets ==
    << [id |-> "monthly-Food", category |-> "Food", limit |-> 5],
       [id |-> "monthly-Food", category |-> "Food", limit |-> 5] >>

BudgetLists == SeqsUpTo(BudgetUniverse, MaxBudgets) \cup { TwinBudgets }

insightShape(type, key, expenseId) ==
    [insight_type |-> type, related_category |-> key,
     related_expense_id |-> expenseId, user_id |-> userId]

InsightShapes ==
    { insightShape("BUDGET_WARNING", key100Of("Food", ThisMonth), << >>),
      insightShape("BUDGET_WARNING", key80Of("Food", ThisMonth), << >>),
      insightShape("BUDGET_WARNING", key100Of("Food", ThisMonth - 1), << >>),
      insightShape("SPENDING_SPIKE", key100Of("Food", ThisMonth), << >>) }
    \cup
    { insightShape("PRICE_INCREASE", "PRICE_INCREASE_" \o ToString(e), << e >>) :
        e \in {2} }

\* The rows of the insights table: the store gives each row its id.
withInsightIds(rows, firstId) ==
    [ i \in 1..Len(rows) |->
        [id |-> firstId + i - 1, insight_type |-> rows[i].insight_type,
         related_category |-> rows[i].related_category,
         related_expense_id |-> rows[i].related_expense_id,
         user_id |-> rows[i].user_id] ]

InsightLists == { withInsightIds(s, 1) : s \in SeqsUpTo(InsightShapes, MaxExisting) }


(***************************************************************************)
(* The engine harness: runArvsEngine called on inputs drawn from the       *)
(* universes, its insert resolved either way, and the call repeated with   *)
(* the first call's candidates added to existingInsights.                  *)
(***************************************************************************)
EngineInit ==
    /\ argExpenses \in ExpenseLists
    /\ argBudgets \in BudgetLists
    /\ argExisting \in InsightLists
    /\ argNow = ThisMonth
    /\ enginePc = "ready"
    /\ engineRound = 1
    /\ engineBatch = << >>
    /\ engineResult = "none"
    /\ insertCalls = << >>
    /\ insertError = FALSE
    /\ firstBatch = << >>
    /\ deletedPairs = {}

\* runArvsEngine with the length test dropped: insert is called every time.
EngineRunAlwaysInsert ==
    /\ enginePc = "ready"
    /\ LET batch == allNewInsights(argExpenses, argBudgets, argExisting,
                                   userId, argNow)
       IN  /\ engineBatch' = batch
           /\ firstBatch' = IF engineRound = 1 THEN batch ELSE firstBatch
           /\ insertCalls' = Append(insertCalls, batch)
           /\ enginePc' = "inserting"
           /\ engineResult' = "none"
    /\ argExpenses' = callerExpensesAfter(argExpenses)
    /\ UNCHANGED << argBudgets, argExisting, argNow, engineRound, insertError >>
    /\ UNCHANGED << deletedPairs, appVars >>

\* runArvsEngine from its entry to its await, or to its return when there is
\* nothing to insert.
EngineRun ==
    /\ enginePc = "ready"
    /\ LET batch == allNewInsights(argExpenses, argBudgets, argExisting,
                                   userId, argNow)
       IN  /\ engineBatch' = batch
           /\ firstBatch' = IF engineRound = 1 THEN batch ELSE firstBatch
           /\ IF Len(batch) > 0
              THEN /\ insertCalls' = Append(insertCalls, batch)
                   /\ enginePc' = "inserting"
                   /\ engineResult' = "none"
              ELSE /\ insertCalls' = insertCalls
                   /\ enginePc' = "done"
                   /\ engineResult' = "false"
    /\ argExpenses' = callerExpensesAfter(argExpenses)
    /\ UNCHANGED << argBudgets, argExisting, argNow, engineRound, insertError >>
    /\ UNCHANGED << deletedPairs, appVars >>

\* The insert resolves with { error: null }: return true.
EngineInsertOk ==
    /\ enginePc = "inserting"
    /\ enginePc' = "done"
    /\ engineResult' = "true"
    /\ UNCHANGED << argExpenses, argBudgets, argExisting, argNow, engineRound,
                    engineBatch, insertCalls, insertError, firstBatch >>
    /\ UNCHANGED << deletedPairs, appVars >>

\* The insert resolves with an error: console.error, return false.
EngineInsertError ==
    /\ enginePc = "inserting"
    /\ enginePc' = "done"
    /\ insertError' = TRUE
    /\ engineResult' = "false"
    /\ UNCHANGED << argExpenses, argBudgets, argExisting, argNow, engineRound,
                    engineBatch, insertCalls, firstBatch >>
    /\ UNCHANGED << deletedPairs, appVars >>

\* The caller runs the engine again at the same instant, on the same expenses
\* and budgets, with the first call's candidates added to existingInsights.
EngineRerun ==
    /\ enginePc = "done"
    /\ engineRound = 1
    /\ engineRound' = 2
    /\ argExisting' = argExisting
                      \o withInsightIds(engineBatch, Len(argExisting) + 1)
    /\ enginePc' = "ready"
    /\ engineBatch' = << >>
    /\ engineResult' = "none"
    /\ insertCalls' = << >>
    /\ insertError' = FALSE
    /\ UNCHANGED << argExpenses, argBudgets, argNow, firstBatch >>
    /\ UNCHANGED << deletedPairs, appVars >>

EngineNext ==
    \/ EngineRun
    \/ EngineInsertOk
    \/ EngineInsertError
    \/ EngineRerun



(***************************************************************************)
(* The application: AppContextProvider with its effects, localStorage and  *)
(* the backend tables.  The state is gathered in a record so that a        *)
(* handler and the effects its render triggers compose as functions; the   *)
(* record also carries two flags that are no state of the program:         *)
(*   dirty  a dependency of the ARVS effect changed since the last render, *)
(*   ok     no bound of the model was exceeded.                            *)
(***************************************************************************)
\* The expenses the backend's table can come to hold, in creation order.
AppExpenses ==
    withIds(<< expenseShape(1, << >>, "Food", << >>, ThisMonth - 1, << "monthly" >>),
               expenseShape(4, << >>, "Food", << >>, ThisMonth, << "monthly" >>) >>)

\* What the budget form can submit.
FormCategories == {"Food"}
FormLimits == {0, 5}

noInsert == [made |-> FALSE, error |-> FALSE, returned |-> "none"]
noReread == [made |-> FALSE, error |-> FALSE, run |-> << >>]

Cur ==
    [session |-> session, isOffline |-> isOffline, loading |-> loading,
     expenses |-> expenses, insights |-> insights, budgets |-> budgets,
     expensesFrom |-> expensesFrom, cache |-> cache,
     savedBudgets |-> savedBudgets, dbExpenses |-> dbExpenses,
     dbInsights |-> dbInsights, fetches |-> fetches, runs |-> runs,
     sequential |-> sequential, invocations |-> << >>,
     lastInsert |-> noInsert, lastReread |-> noReread, now |-> ThisMonth,
     dirty |-> FALSE, ok |-> TRUE]

Commit(st) ==
    /\ st.ok
    /\ session' = st.session
    /\ isOffline' = st.isOffline
    /\ loading' = st.loading
    /\ expenses' = st.expenses
    /\ insights' = st.insights
    /\ budgets' = st.budgets
    /\ expensesFrom' = st.expensesFrom
    /\ cache' = st.cache
    /\ savedBudgets' = st.savedBudgets
    /\ dbExpenses' = st.dbExpenses
    /\ dbInsights' = st.dbInsights
    /\ fetches' = st.fetches
    /\ runs' = st.runs
    /\ sequential' = st.sequential
    /\ invocations' = st.invocations
    /\ lastInsert' = st.lastInsert
    /\ lastReread' = st.lastReread
    /\ UNCHANGED engineVars

removeAt(s, k) == SubSeq(s, 1, k - 1) \o SubSeq(s, k + 1, Len(s))

\* supabase.from('expenses').select('*').order('created_at', {ascending: false})
selectExpenses(st) == sortDesc(st.dbExpenses)

\* supabase.from('insights').select('*').order('created_at', {ascending: false})
selectInsights(st) == Reverse(st.dbInsights)

\* The effect calls runArvsEngine(expenses, budgets, insights, session.user.id):
\* the engine runs to its await (the insert is issued) or returns false.
invokeEngine(st) ==
    LET batch == allNewInsights(st.expenses, st.budgets, st.insights,
                                userId, st.now)
        called == [st EXCEPT
                     !.invocations = Append(st.invocations,
                                    [session |-> st.session,
                                     offline |-> st.isOffline,
                                     count |-> Len(st.expenses),
                                     from |-> st.expensesFrom,
                                     existing |-> st.insights]),
                     !.sequential = st.sequential /\ st.runs = << >>]
    IN  IF batch = << >> THEN called
        ELSE [called EXCEPT
                !.runs = Append(st.runs,
                                [phase |-> "inserting", batch |-> batch,
                                 snap |-> [expenses |-> st.expenses,
                                           budgets |-> st.budgets,
                                           insights |-> st.insights]]),
                !.ok = st.ok /\ Len(st.runs) < MaxRuns]

\* The ARVS Engine effect without its guard.
arvsEffectNoGuard(st) == invokeEngine(st)

\* The ARVS Engine effect, run because one of its dependencies changed.
arvsEffect(st) ==
    IF st.session /\ Len(st.expenses) > 0 /\ ~st.loading /\ ~st.isOffline
    THEN invokeEngine(st)
    ELSE st

\* A render after state updates: the ARVS effect runs if a dependency changed.
render(st) ==
    IF st.dirty THEN arvsEffect([st EXCEPT !.dirty = FALSE]) ELSE st

\* fetchData from its entry to its await (or its return when offline).
\* cacheValid is (Date.now() - cachedData.timestamp) < CACHE_DURATION_MS.
fetchDataSync(st, cacheValid) ==
    IF ~st.session THEN st
    ELSE LET useCache == st.cache # << >> /\ (cacheValid \/ st.isOffline)
             s1 == IF useCache
                   THEN [st EXCEPT !.expenses = st.cache[1].expenses,
                                   !.insights = st.cache[1].insights,
                                   !.expensesFrom = "cache",
                                   !.loading = FALSE,
                                   !.dirty = TRUE]
                   ELSE st
         IN  IF st.isOffline
             THEN [s1 EXCEPT !.loading = FALSE,
                             !.dirty = s1.dirty \/ s1.loading]
             ELSE LET load == IF st.cache = << >> THEN TRUE ELSE s1.loading
                  IN  [s1 EXCEPT !.loading = load,
                                 !.dirty = s1.dirty \/ (load # st.loading),
                                 !.fetches = st.fetches + 1,
                                 !.ok = s1.ok /\ st.fetches < MaxFetches]

\* The effect on [session, fetchData]: fetch, or clear everything on logout.
sessionEffect(st, cacheValid) ==
    IF st.session THEN fetchDataSync(st, cacheValid)
    ELSE [st EXCEPT !.expenses = << >>, !.insights = << >>, !.budgets = << >>,
                    !.expensesFrom = "none", !.loading = FALSE,
                    !.cache = << >>, !.dirty = TRUE]

\* A render in which session or isOffline changed: both effects run on the
\* values of that render, then the updates fetchData queued are rendered.
effectsAfter(st, cacheValid) ==
    render(sessionEffect(arvsEffect(st), cacheValid))

\* saveBudgets
saveBudgets(st, newBudgets) ==
    [st EXCEPT !.budgets = newBudgets, !.savedBudgets = << newBudgets >>,
               !.dirty = TRUE]

(***************************************************************************)
(* The actions of the application.                                         *)
(***************************************************************************)
AppInit ==
    /\ session = FALSE
    /\ isOffline = FALSE
    /\ loading = FALSE
    /\ expenses = << >>
    /\ insights = << >>
    /\ budgets = << >>
    /\ expensesFrom = "none"
    /\ cache = << >>
    /\ savedBudgets = << >>
    /\ dbExpenses = << >>
    /\ dbInsights = << >>
    /\ fetches = 0
    /\ runs = << >>
    /\ sequential = TRUE
    /\ invocations = << >>
    /\ lastInsert = noInsert
    /\ lastReread = noReread

\* onAuthStateChange delivers a session.
Login ==
    /\ ~session
    /\ \E cacheValid \in BOOLEAN :
          Commit(effectsAfter([Cur EXCEPT !.session = TRUE], cacheValid))

\* onAuthStateChange delivers null.
Logout ==
    /\ session
    /\ Commit(effectsAfter([Cur EXCEPT !.session = FALSE], FALSE))

\* window 'online'
GoOnline ==
    /\ isOffline
    /\ \E cacheValid \in BOOLEAN :
          Commit(effectsAfter([Cur EXCEPT !.isOffline = FALSE], cacheValid))

\* window 'offline'
GoOffline ==
    /\ ~isOffline
    /\ Commit(effectsAfter([Cur EXCEPT !.isOffline = TRUE], FALSE))

\* refetchData(), called by the pages after an expense is saved or deleted.
RefetchData ==
    /\ session
    /\ \E cacheValid \in BOOLEAN :
          Commit(render(fetchDataSync(Cur, cacheValid)))

\* fetchData after its await, all four requests without error.
FetchResolveOk ==
    /\ fetches > 0
    /\ LET fetchedExpenses == selectExpenses(Cur)
           fetchedInsights == selectInsights(Cur)
       IN  Commit(render(
             [Cur EXCEPT
                !.expenses = fetchedExpenses,
                !.insights = fetchedInsights,
                !.expensesFrom = "backend",
                !.cache = << [expenses |-> fetchedExpenses,
                              insights |-> fetchedInsights] >>,
                !.budgets = IF savedBudgets # << >> THEN savedBudgets[1]
                            ELSE budgets,
                !.loading = FALSE,
                !.fetches = fetches - 1,
                !.dirty = TRUE]))

\* fetchData after its await, one of the requests with an error: catch, finally.
FetchResolveError ==
    /\ fetches > 0
    /\ Commit(render([Cur EXCEPT !.loading = FALSE,
                                 !.fetches = fetches - 1,
                                 !.dirty = loading]))

\* The budget form submitted with a category and a limit (parseFloat of the
\* limit field; NaN fails `limit > 0` as 0 does), without the search for a
\* budget of the category.
handleAddBudgetNoFind(st, category, limit) ==
    IF category # "" /\ limit > 0
    THEN saveBudgets(st,
            Append(st.budgets, [category |-> category, limit |-> limit,
                                id |-> "monthly-" \o category]))
    ELSE st

\* handleAddBudget: the budget form submitted with a category and a limit.
handleAddBudget(st, category, limit) ==
    IF /\ category # ""
       /\ limit > 0
       /\ ~\E i \in 1..Len(st.budgets) : st.budgets[i].category = category
    THEN saveBudgets(st,
            Append(st.budgets, [category |-> category, limit |-> limit,
                                id |-> "monthly-" \o category]))
    ELSE st

\* handleDeleteBudget
handleDeleteBudget(st, id) ==
    saveBudgets(st, SelectSeq(st.budgets, LAMBDA b : b.id # id))

AddBudget ==
    /\ session
    /\ \E category \in FormCategories, limit \in FormLimits :
          Commit(render(handleAddBudget(Cur, category, limit)))

DeleteBudget ==
    /\ session
    /\ \E i \in 1..Len(budgets) :
          Commit(render(handleDeleteBudget(Cur, budgets[i].id)))

\* A row is added to the expenses table (ExpenseForm's insert, or the
\* create_missing_recurring_expenses procedure).
DbAddExpense ==
    /\ Len(dbExpenses) < Len(AppExpenses)
    /\ Commit([Cur EXCEPT
                 !.dbExpenses = Append(dbExpenses,
                                       AppExpenses[Len(dbExpenses) + 1])])

\* The insert of run k resolves with an error that the engine does not
\* return on: it goes on to return true.
InsertErrorNoReturn(k) ==
    /\ k <= Len(runs)
    /\ runs[k].phase = "inserting"
    /\ Commit([Cur EXCEPT
                 !.runs[k] = [runs[k] EXCEPT !.phase = "rereading"],
                 !.lastInsert = [made |-> TRUE, error |-> TRUE,
                                 returned |-> "true"]])

\* The insert of run k resolves with an error: runArvsEngine logs it and
\* returns false, and the caller's then() does nothing.
InsertError(k) ==
    /\ k <= Len(runs)
    /\ runs[k].phase = "inserting"
    /\ Commit([Cur EXCEPT
                 !.runs = removeAt(runs, k),
                 !.lastInsert = [made |-> TRUE, error |-> TRUE,
                                 returned |-> "false"]])

\* The insert of run k as an overwrite: the table holds the batch only.
InsertOkOverwrite(k) ==
    /\ k <= Len(runs)
    /\ runs[k].phase = "inserting"
    /\ Len(dbInsights) + Len(runs[k].batch) <= MaxStore
    /\ Commit([Cur EXCEPT
                 !.dbInsights = withInsightIds(runs[k].batch, Len(dbInsights) + 1),
                 !.runs[k] = [runs[k] EXCEPT !.phase = "rereading"],
                 !.lastInsert = [made |-> TRUE, error |-> FALSE,
                                 returned |-> "true"]])

\* The insert of run k resolves without error and runArvsEngine returns
\* true, but the caller's then() issues no re-read.
InsertOkNoReread(k) ==
    /\ k <= Len(runs)
    /\ runs[k].phase = "inserting"
    /\ Len(dbInsights) + Len(runs[k].batch) <= MaxStore
    /\ Commit([Cur EXCEPT
                 !.dbInsights = dbInsights
                     \o withInsightIds(runs[k].batch, Len(dbInsights) + 1),
                 !.runs = removeAt(runs, k),
                 !.lastInsert = [made |-> TRUE, error |-> FALSE,
                                 returned |-> "true"]])

\* The insert of run k resolves without error: the rows are in the table,
\* runArvsEngine returns true and the caller issues the re-read.
InsertOk(k) ==
    /\ k <= Len(runs)
    /\ runs[k].phase = "inserting"
    /\ Len(dbInsights) + Len(runs[k].batch) <= MaxStore
    /\ Commit([Cur EXCEPT
                 !.dbInsights = dbInsights
                     \o withInsightIds(runs[k].batch, Len(dbInsights) + 1),
                 !.runs[k] = [runs[k] EXCEPT !.phase = "rereading"],
                 !.lastInsert = [made |-> TRUE, error |-> FALSE,
                                 returned |-> "true"]])

\* The re-read of run k resolving with the list the run was started with.
RereadOkStale(k) ==
    /\ k <= Len(runs)
    /\ runs[k].phase = "rereading"
    /\ Commit(render([Cur EXCEPT !.insights = runs[k].snap.insights,
                                 !.runs = removeAt(runs, k),
                                 !.lastReread = [made |-> TRUE, error |-> FALSE,
                                                 run |-> << runs[k] >>],
                                 !.dirty = TRUE]))

\* The re-read of run k resolves with data: setInsights(data).
RereadOk(k) ==
    /\ k <= Len(runs)
    /\ runs[k].phase = "rereading"
    /\ Commit(render([Cur EXCEPT !.insights = selectInsights(Cur),
                                 !.runs = removeAt(runs, k),
                                 !.lastReread = [made |-> TRUE, error |-> FALSE,
                                                 run |-> << runs[k] >>],
                                 !.dirty = TRUE]))

\* The re-read of run k resolves with an error: console.error only.
RereadError(k) ==
    /\ k <= Len(runs)
    /\ runs[k].phase = "rereading"
    /\ Commit([Cur EXCEPT !.runs = removeAt(runs, k), !.sequential = FALSE,
                          !.lastReread = [made |-> TRUE, error |-> TRUE,
                                          run |-> << runs[k] >>]])

Next ==
    \/ Login
    \/ Logout
    \/ GoOnline
    \/ GoOffline
    \/ RefetchData
    \/ FetchResolveOk
    \/ FetchResolveError
    \/ AddBudget
    \/ DeleteBudget
    \/ DbAddExpense
    \/ \E k \in 1..MaxRuns : InsertOk(k)
    \/ \E k \in 1..MaxRuns : InsertError(k)
    \/ \E k \in 1..MaxRuns : RereadOk(k)
    \/ \E k \in 1..MaxRuns : RereadError(k)

\* The engine harness at rest.
EngineIdle ==
    /\ argExpenses = << >>
    /\ argBudgets = << >>
    /\ argExisting = << >>
    /\ argNow = ThisMonth
    /\ enginePc = "done"
    /\ engineRound = 2
    /\ engineBatch = << >>
    /\ engineResult = "false"
    /\ insertCalls = << >>
    /\ insertError = FALSE
    /\ firstBatch = << >>
    /\ deletedPairs = {}

Init == AppInit /\ EngineIdle

Spec == Init /\ [][Next]_vars

\* The application started for a user whose expenses table already holds one
\* expense of this month that is not recurring: the cycles then produce
\* budget warnings only.
WarningExpenses ==
    withIds(<< expenseShape(4, << >>, "Food", << >>, ThisMonth, << "none" >>) >>)

WarningInit ==
    /\ session = FALSE
    /\ isOffline = FALSE
    /\ loading = FALSE
    /\ expenses = << >>
    /\ insights = << >>
    /\ budgets = << >>
    /\ expensesFrom = "none"
    /\ cache = << >>
    /\ savedBudgets = << >>
    /\ dbExpenses = WarningExpenses
    /\ dbInsights = << >>
    /\ fetches = 0
    /\ runs = << >>
    /\ sequential = TRUE
    /\ invocations = << >>
    /\ lastInsert = noInsert
    /\ lastReread = noReread
    /\ EngineIdle

WarningSpec == WarningInit /\ [][Next]_vars

\* The application right after a data refresh was started for a signed-in
\* user, whatever the tables and the saved budgets hold, and from then on
\* without any action of the user: only the pending requests resolve, and
\* each of them eventually does.
ChainInit ==
    /\ session = TRUE
    /\ isOffline = FALSE
    /\ loading = TRUE
    /\ expenses = << >>
    /\ insights = << >>
    /\ budgets = << >>
    /\ expensesFrom = "none"
    /\ cache = << >>
    /\ savedBudgets \in {<< >>} \cup { << b >> : b \in BudgetLists }
    /\ dbExpenses \in { SubSeq(AppExpenses, 1, n) : n \in 0..Len(AppExpenses) }
                      \cup { WarningExpenses }
    /\ dbInsights \in InsightLists
    /\ fetches = 1
    /\ runs = << >>
    /\ sequential = TRUE
    /\ invocations = << >>
    /\ lastInsert = noInsert
    /\ lastReread = noReread
    /\ EngineIdle

ChainNext ==
    \/ FetchResolveOk
    \/ FetchResolveError
    \/ \E k \in 1..MaxRuns : InsertOk(k)
    \/ \E k \in 1..MaxRuns : InsertError(k)
    \/ \E k \in 1..MaxRuns : RereadOk(k)
    \/ \E k \in 1..MaxRuns : RereadError(k)

\* A pending fetchData resolves: one of the two FetchResolve steps.
FetchResolves ==
    /\ fetches > 0
    /\ fetches' = fetches - 1

\* A pending runArvsEngine call moves on: its insert resolves and the re-read
\* is issued, or the call leaves the pending ones.
RunResolves ==
    \E k \in 1..Len(runs) :
        \/ /\ runs[k].phase = "inserting"
           /\ runs' = [runs EXCEPT ![k].phase = "rereading"]
        \/ runs' = removeAt(runs, k)

\* Every request the browser has pending is answered, with data or an error.
ChainSpec ==
    /\ ChainInit
    /\ [][ChainNext]_vars
    /\ WF_fetches(FetchResolves)
    /\ WF_runs(RunResolves)

\* The budgets page of a signed-in user who has no expense yet: the form is
\* submitted with any of its categories (none chosen included) and limits.
PageCategories == {"", "Food", "Fuel", "Rent"}
PageLimits == {-5, 0, 5, 8, 9}

PageInit ==
    /\ session = TRUE
    /\ isOffline = FALSE
    /\ loading = FALSE
    /\ expenses = << >>
    /\ insights = << >>
    /\ budgets = << >>
    /\ expensesFrom = "backend"
    /\ cache = << [expenses |-> << >>, insights |-> << >>] >>
    /\ savedBudgets = << >>
    /\ dbExpenses = << >>
    /\ dbInsights = << >>
    /\ fetches = 0
    /\ runs = << >>
    /\ sequential = TRUE
    /\ invocations = << >>
    /\ lastInsert = noInsert
    /\ lastReread = noReread
    /\ EngineIdle

PageAddBudget ==
    \E category \in PageCategories, limit \in PageLimits :
        Commit(render(handleAddBudget(Cur, category, limit)))

PageNext ==
    \/ PageAddBudget
    \/ DeleteBudget

PageSpec == PageInit /\ [][PageNext]_vars

\* The engine harness, with the application at rest.
EngineSpecInit == EngineInit /\ AppInit

EngineSpec == EngineSpecInit /\ [][EngineNext]_vars

(***************************************************************************)
(* The engine harness on recurring expenses whose descriptions and         *)
(* categories are free text: both are typed by the user, so either may     *)
(* hold the separator "::" of getRecurringKey.                             *)
(***************************************************************************)
KeyDescriptions == { << >>, << "" >>, << "A" >>, << "A::B" >> }

KeyCategories == { "Food", "B::Food" }

KeyShapes ==
    { expenseShape(a, << >>, c, d, ThisMonth, << "monthly" >>) :
        a \in {1, 4}, c \in KeyCategories, d \in KeyDescriptions }

\* The list as the expenses select returns it, newest first: the creation
\* day of an expense falls with its position.
newestFirst(shapes) ==
    [ i \in 1..Len(shapes) |->
        [id |-> i, amount |-> shapes[i].amount,
         converted_amount |-> shapes[i].converted_amount,
         category |-> shapes[i].category,
         description |-> shapes[i].description,
         created_at |-> ThisMonth + Len(shapes) - i,
         recurring_type |-> shapes[i].recurring_type] ]

KeyLists == { newestFirst(s) : s \in SeqsUpTo(KeyShapes, MaxKeyed) }

KeyInit ==
    /\ argExpenses \in KeyLists
    /\ argBudgets = << >>
    /\ argExisting = << >>
    /\ argNow = ThisMonth + MaxKeyed
    /\ enginePc = "ready"
    /\ engineRound = 1
    /\ engineBatch = << >>
    /\ engineResult = "none"
    /\ insertCalls = << >>
    /\ insertError = FALSE
    /\ firstBatch = << >>
    /\ deletedPairs = {}
    /\ AppInit

KeySpec == KeyInit /\ [][EngineNext]_vars

(***************************************************************************)
(* The engine harness over cycles: between two runs newer recurring        *)
(* expenses are added, and a run whose insert succeeded has its candidates *)
(* in existingInsights from then on.                                       *)
(***************************************************************************)
SeriesShapes ==
    { expenseShape(a, << >>, "Food", d, 0, << "monthly" >>) :
        a \in {1, 4}, d \in { << >>, << "Rent" >> } }

SeriesInit ==
    /\ argExpenses = << >>
    /\ argBudgets = << >>
    /\ argExisting = << >>
    /\ argNow = MaxSeries
    /\ enginePc = "ready"
    /\ engineRound = 1
    /\ engineBatch = << >>
    /\ engineResult = "none"
    /\ insertCalls = << >>
    /\ insertError = FALSE
    /\ firstBatch = << >>
    /\ deletedPairs = {}
    /\ AppInit

\* A recurring expense newer than all others is added between two cycles;
\* the next select returns it first.
SeriesAdd ==
    /\ enginePc = "ready"
    /\ Len(argExpenses) < MaxSeries
    /\ \E s \in SeriesShapes :
          argExpenses' =
              << [id |-> Len(argExpenses) + 1, amount |-> s.amount,
                  converted_amount |-> s.converted_amount,
                  category |-> s.category, description |-> s.description,
                  created_at |-> Len(argExpenses) + 1,
                  recurring_type |-> s.recurring_type] >> \o argExpenses
    /\ UNCHANGED << argBudgets, argExisting, argNow, enginePc, engineRound,
                    engineBatch, engineResult, insertCalls, insertError,
                    firstBatch >>
    /\ UNCHANGED << deletedPairs, appVars >>

\* The cycle ends: after a successful insert the re-read puts the new rows
\* in front of the insights the next run is given.
SeriesCycleEnd ==
    /\ enginePc = "done"
    /\ enginePc' = "ready"
    /\ argExisting' =
          IF engineResult = "true"
          THEN Reverse(withInsightIds(engineBatch, Len(argExisting) + 1))
               \o argExisting
          ELSE argExisting
    /\ engineBatch' = << >>
    /\ engineResult' = "none"
    /\ insertCalls' = << >>
    /\ insertError' = FALSE
    /\ UNCHANGED << argExpenses, argBudgets, argNow, engineRound, firstBatch >>
    /\ UNCHANGED << deletedPairs, appVars >>

SeriesNext ==
    \/ SeriesAdd
    \/ EngineRun
    \/ EngineInsertOk
    \/ EngineInsertError
    \/ SeriesCycleEnd

SeriesSpec == SeriesInit /\ [][SeriesNext]_vars

(***************************************************************************)
(* Successive engine cycles on one snapshot of expenses and budgets: the   *)
(* store starts empty, every cycle is given the store's insights newest    *)
(* first, and a successful insert adds the batch to the store.  A cycle    *)
(* that follows a failed insert is marked as round 2 and firstBatch keeps  *)
(* the failed batch.  RetrySpec has no deletion and states the fairness    *)
(* the retry claim supposes: cycles keep being started (WF on the start    *)
(* and the end of a cycle: every data refresh re-runs the effect) and the  *)
(* insert eventually succeeds (SF on its success).  DeleteSpec adds the    *)
(* deletion of an insight by the user between two cycles, and no fairness. *)
(***************************************************************************)
CycleInit ==
    /\ argExpenses \in ExpenseLists
    /\ argBudgets \in BudgetLists
    /\ argExisting = << >>
    /\ argNow = ThisMonth
    /\ enginePc = "ready"
    /\ engineRound = 1
    /\ engineBatch = << >>
    /\ engineResult = "none"
    /\ insertCalls = << >>
    /\ insertError = FALSE
    /\ firstBatch = << >>
    /\ deletedPairs = {}
    /\ AppInit

\* The n smallest row ids the store does not use, from i on.
RECURSIVE freeIds(_, _, _)
freeIds(used, n, i) ==
    IF n = 0 THEN << >>
    ELSE IF i \in used THEN freeIds(used, n, i + 1)
    ELSE << i >> \o freeIds(used, n - 1, i + 1)

\* The insights select after the insert of a batch: the new rows, each with
\* an id of its own, in front of the older ones.
selectAfterInsert(rows, batch) ==
    LET ids == freeIds({ rows[i].id : i \in 1..Len(rows) }, Len(batch), 1)
        new == [ i \in 1..Len(batch) |->
                   [id |-> ids[i], insight_type |-> batch[i].insight_type,
                    related_category |-> batch[i].related_category,
                    related_expense_id |-> batch[i].related_expense_id,
                    user_id |-> batch[i].user_id] ]
    IN  Reverse(new) \o rows

\* The cycle ends with the failed batch counted as if it had been stored:
\* the next cycle is given it as existing insights.
CycleEndKeepsFailed ==
    /\ enginePc = "done"
    /\ enginePc' = "ready"
    /\ argExisting' = selectAfterInsert(argExisting, engineBatch)
    /\ engineRound' = IF insertError THEN 2 ELSE 1
    /\ engineBatch' = << >>
    /\ engineResult' = "none"
    /\ insertCalls' = << >>
    /\ insertError' = FALSE
    /\ deletedPairs' = {}
    /\ UNCHANGED << argExpenses, argBudgets, argNow, firstBatch >>
    /\ UNCHANGED appVars

\* The cycle ends.  When runArvsEngine returned true the re-read gives the
\* next cycle the store with the new rows; when it returned false nothing is
\* re-read and the next cycle, started by a later refresh, is given the
\* insights the store held before.
CycleEnd ==
    /\ enginePc = "done"
    /\ enginePc' = "ready"
    /\ argExisting' = IF engineResult = "true"
                      THEN selectAfterInsert(argExisting, engineBatch)
                      ELSE argExisting
    /\ engineRound' = IF insertError THEN 2 ELSE 1
    /\ engineBatch' = << >>
    /\ engineResult' = "none"
    /\ insertCalls' = << >>
    /\ insertError' = FALSE
    /\ deletedPairs' = {}
    /\ UNCHANGED << argExpenses, argBudgets, argNow, firstBatch >>
    /\ UNCHANGED appVars

RetryNext ==
    \/ EngineRun
    \/ EngineInsertOk
    \/ EngineInsertError
    \/ CycleEnd

\* The steps of a cycle as they show in the harness's position: EngineRun
\* leaves "ready", EngineInsertOk reaches "done" with true, CycleEnd returns
\* to "ready".
CycleStarts == enginePc = "ready" /\ enginePc' \in {"inserting", "done"}

InsertSucceeds ==
    /\ enginePc = "inserting"
    /\ enginePc' = "done"
    /\ engineResult' = "true"

CycleEnds == enginePc = "done" /\ enginePc' = "ready"

RetrySpec ==
    /\ CycleInit
    /\ [][RetryNext]_vars
    /\ WF_enginePc(CycleStarts)
    /\ WF_enginePc(CycleEnds)
    /\ SF_<< enginePc, engineResult >>(InsertSucceeds)

\* The user deletes one insight between two cycles.
DeleteInsight ==
    /\ enginePc = "ready"
    /\ \E k \in 1..Len(argExisting) :
          /\ argExisting' = removeAt(argExisting, k)
          /\ deletedPairs' = deletedPairs
                \cup { << argExisting[k].insight_type,
                          argExisting[k].related_category >> }
    /\ UNCHANGED << argExpenses, argBudgets, argNow, enginePc, engineRound,
                    engineBatch, engineResult, insertCalls, insertError,
                    firstBatch >>
    /\ UNCHANGED appVars

DeleteNext ==
    \/ EngineRun
    \/ EngineInsertOk
    \/ EngineInsertError
    \/ CycleEnd
    \/ DeleteInsight

DeleteSpec == CycleInit /\ [][DeleteNext]_vars

(***************************************************************************)
(* The engine harness across months and years: one budget, one expense     *)
(* dated today, today being the first day of any month of two years, and   *)
(* at most one existing BUDGET_WARNING whose key was formed for some       *)
(* threshold, category and month.  One category contains the separator and *)
(* a month key.                                                            *)
(***************************************************************************)
ScopeDays == { m * DaysPerMonth : m \in 0..(2 * MonthsPerYear - 1) }

ScopeCategories == {"Food", "Fuel", "Food_" \o monthKey(0)}

ScopeTuples == {80, 100} \X ScopeCategories \X ScopeDays

\* The key checkBudgetWarnings forms for a threshold and a category on a day.
keyOfTuple(T) ==
    IF T[1] = 100 THEN key100Of(T[2], T[3]) ELSE key80Of(T[2], T[3])

ScopeInit ==
    /\ argNow \in ScopeDays
    /\ \E c \in ScopeCategories, a \in {4, 5} :
          argExpenses =
              withIds(<< expenseShape(a, << >>, c, << >>, argNow, << "none" >>) >>)
    /\ \E c \in ScopeCategories :
          argBudgets = << [id |-> "monthly-" \o c, category |-> c, limit |-> 5] >>
    /\ argExisting \in
          {<< >>} \cup
          { withInsightIds(<< insightShape("BUDGET_WARNING", keyOfTuple(T), << >>) >>, 1) :
              T \in ScopeTuples }
    /\ enginePc = "ready"
    /\ engineRound = 1
    /\ engineBatch = << >>
    /\ engineResult = "none"
    /\ insertCalls = << >>
    /\ insertError = FALSE
    /\ firstBatch = << >>
    /\ deletedPairs = {}
    /\ AppInit

ScopeSpec == ScopeInit /\ [][EngineNext]_vars

(***************************************************************************)
(* Claims settled on the engine harness (EngineSpec).                      *)
(***************************************************************************)

\* C3 (idempotence): when runArvsEngine is run again at the same instant on
\* the same expenses and budgets, with existingInsights equal to the first
\* run's existingInsights plus the first run's candidates, the second run
\* computes no candidate, calls insert never and returns false.
C3_Idempotent ==
    (engineRound = 2 /\ enginePc # "ready")
        => /\ engineBatch = << >>
           /\ insertCalls = << >>
           /\ enginePc = "done"
           /\ engineResult = "false"

\* The second run has returned after a first run that had candidates of both
\* evaluators.
C3_Witness ==
    /\ engineRound = 2
    /\ enginePc = "done"
    /\ \E i \in 1..Len(firstBatch) : firstBatch[i].insight_type = "BUDGET_WARNING"
    /\ \E i \in 1..Len(firstBatch) : firstBatch[i].insight_type = "PRICE_INCREASE"

\* C4: when both evaluators return no candidates, runArvsEngine returns false
\* and issues no insert call.
C4_NoCandidatesNoInsert ==
    (/\ enginePc # "ready"
     /\ checkBudgetWarnings(argExpenses, argBudgets, argExisting, argNow) = << >>
     /\ checkPriceIncreases(argExpenses, argExisting) = << >>)
        => /\ enginePc = "done"
           /\ engineResult = "false"
           /\ insertCalls = << >>

\* A first run on a snapshot with expenses and a budget, of which neither
\* evaluator makes a candidate, has returned.
C4_Witness ==
    /\ engineRound = 1
    /\ enginePc = "done"
    /\ Len(argExpenses) > 0
    /\ Len(argBudgets) > 0
    /\ checkBudgetWarnings(argExpenses, argBudgets, argExisting, argNow) = << >>
    /\ checkPriceIncreases(argExpenses, argExisting) = << >>

\* C6: when the combined candidate list is not empty, a run issues exactly one
\* insert call; its records are the budget candidates followed by the price
\* increase candidates, each with user_id = userId; and the run returns true
\* exactly when that insert reports no error.
C6_OneBatchInsert ==
    LET b == checkBudgetWarnings(argExpenses, argBudgets, argExisting, argNow)
        p == checkPriceIncreases(argExpenses, argExisting)
    IN  (enginePc # "ready" /\ Len(b) + Len(p) > 0)
            => /\ Len(insertCalls) = 1
               /\ Len(insertCalls[1]) = Len(b) + Len(p)
               /\ \A i \in 1..Len(b) :
                     /\ insertCalls[1][i].insight_type = b[i].insight_type
                     /\ insertCalls[1][i].related_category = b[i].related_category
                     /\ insertCalls[1][i].related_expense_id = b[i].related_expense_id
                     /\ insertCalls[1][i].user_id = userId
               /\ \A i \in 1..Len(p) :
                     /\ insertCalls[1][Len(b) + i].insight_type = p[i].insight_type
                     /\ insertCalls[1][Len(b) + i].related_category = p[i].related_category
                     /\ insertCalls[1][Len(b) + i].related_expense_id = p[i].related_expense_id
                     /\ insertCalls[1][Len(b) + i].user_id = userId
               /\ (enginePc = "done" =>
                     /\ engineResult \in {"true", "false"}
                     /\ (engineResult = "true" <=> ~insertError))

\* A run whose batch holds a budget candidate and a price increase candidate
\* has returned false after its insert reported an error.
C6_Witness ==
    /\ enginePc = "done"
    /\ insertError
    /\ engineResult = "false"
    /\ checkBudgetWarnings(argExpenses, argBudgets, argExisting, argNow) # << >>
    /\ checkPriceIncreases(argExpenses, argExisting) # << >>

\* The drafts budget j of the list contributes to checkBudgetWarnings' result.
budgetContribution(j) ==
    LET pre == checkBudgetWarnings(argExpenses, SubSeq(argBudgets, 1, j - 1),
                                   argExisting, argNow)
        upto == checkBudgetWarnings(argExpenses, SubSeq(argBudgets, 1, j),
                                    argExisting, argNow)
    IN  SubSeq(upto, Len(pre) + 1, Len(upto))

\* The current-month spend of a category, summed independently of the model
\* of the code: converted amount when truthy, else raw amount.
monthSpend(category) ==
    sumAmounts(SelectSeq(argExpenses,
        LAMBDA e : e.category = category
                   /\ e.created_at >= firstDayOfMonth(argNow)))

existsBudgetWarning(key) ==
    \E i \in 1..Len(argExisting) :
        /\ argExisting[i].insight_type = "BUDGET_WARNING"
        /\ argExisting[i].related_category = key

\* What C10 asks of budget j, once its spend is at least 100% of its limit.
overBudgetOutcome(j) ==
    LET key100 == key100Of(argBudgets[j].category, argNow)
    IN  budgetContribution(j) =
            IF existsBudgetWarning(key100) THEN << >>
            ELSE << draft("BUDGET_WARNING", key100, << >>) >>

\* C10: for every budget whose current-month spend is at least 100% of its
\* limit, checkBudgetWarnings emits exactly one BUDGET_WARNING candidate with
\* the 100-key iff no existing BUDGET_WARNING insight has that key; an
\* existing 80-key insight does not suppress it and no 80-key candidate is
\* emitted for that budget.
C10_OverBudget ==
    \A j \in 1..Len(argBudgets) :
        (monthSpend(argBudgets[j].category) * 100 >= 100 * argBudgets[j].limit)
            => overBudgetOutcome(j)

\* What C11 asks of budget j, once its spend is in [80%, 100%) of its limit.
nearBudgetOutcome(j) ==
    LET key100 == key100Of(argBudgets[j].category, argNow)
        key80 == key80Of(argBudgets[j].category, argNow)
    IN  budgetContribution(j) =
            IF existsBudgetWarning(key80) \/ existsBudgetWarning(key100)
            THEN << >>
            ELSE << draft("BUDGET_WARNING", key80, << >>) >>

nearBudget(j) ==
    /\ monthSpend(argBudgets[j].category) * 100 >= 80 * argBudgets[j].limit
    /\ monthSpend(argBudgets[j].category) * 100 < 100 * argBudgets[j].limit

C12_ZeroLimitOverBudget ==
    \A j \in 1..Len(argBudgets) :
        argBudgets[j].limit = 0
            => /\ overBudgetOutcome(j)
               /\ percentageClass(monthSpend(argBudgets[j].category),
                                  argBudgets[j].limit) = "finite"

\* The categories of the expenses handed to the engine.
expenseCategories == { argExpenses[i].category : i \in 1..Len(argExpenses) }

\* The expenses of a category created from the first instant of the current
\* month to now, both ends included.
inWindow(category) ==
    SelectSeq(argExpenses,
        LAMBDA e : /\ e.category = category
                   /\ e.created_at >= firstDayOfMonth(argNow)
                   /\ e.created_at <= argNow)

\* C13: the spend checkBudgetWarnings attributes to a category is the sum over
\* exactly the expenses created between the first instant of the current
\* month and now, both ends included: an expense dated before that first
\* instant or after now adds nothing.
C13_SpendWindow ==
    \A c \in expenseCategories :
        spendingByCategory(argExpenses, argNow, c) = sumAmounts(inWindow(c))

\* The converted amount when one is present, 0 included; else the raw amount.
presentAmount(e) ==
    IF e.converted_amount # << >> THEN e.converted_amount[1] ELSE e.amount

RECURSIVE sumPresentAmounts(_)
sumPresentAmounts(es) ==
    IF es = << >> THEN 0
    ELSE presentAmount(Head(es)) + sumPresentAmounts(Tail(es))

\* C14: for every expense in the month window, the amount added to its
\* category's spend is its converted amount whenever one is present (a
\* converted amount of 0 included) and its raw amount only when the converted
\* amount is absent.
C14_ConvertedAmountIfPresent ==
    \A c \in expenseCategories :
        spendingByCategory(argExpenses, argNow, c) =
            sumPresentAmounts(SelectSeq(monthExpenses(argExpenses, argNow),
                                        LAMBDA e : e.category = c))

\* The description of an expense as text, a missing one being "".
descriptionText(e) == IF e.description = << >> THEN "" ELSE e.description[1]

\* The positions in argExpenses of the recurring series of expense i.
seriesOf(i) ==
    { j \in 1..Len(argExpenses) :
        /\ isRecurring(argExpenses[i])
        /\ isRecurring(argExpenses[j])
        /\ argExpenses[j].category = argExpenses[i].category
        /\ descriptionText(argExpenses[j]) = descriptionText(argExpenses[i]) }

\* i is the member of S with the latest creation time.
latestIn(i, S) ==
    /\ i \in S
    /\ \A j \in S : argExpenses[j].created_at <= argExpenses[i].created_at

existsPriceIncrease(id) ==
    \E k \in 1..Len(argExisting) :
        /\ argExisting[k].insight_type = "PRICE_INCREASE"
        /\ argExisting[k].related_expense_id = << id >>

\* What C15 asks for a candidate linked to expense i.
expectsPriceIncrease(i) ==
    /\ Cardinality(seriesOf(i)) >= 2
    /\ latestIn(i, seriesOf(i))
    /\ \E p \in seriesOf(i) \ {i} :
          /\ latestIn(p, seriesOf(i) \ {i})
          /\ argExpenses[i].amount > argExpenses[p].amount
    /\ ~existsPriceIncrease(argExpenses[i].id)

priceIncreaseDraft(i) ==
    draft("PRICE_INCREASE", "PRICE_INCREASE_" \o ToString(argExpenses[i].id),
          << argExpenses[i].id >>)

\* C15: checkPriceIncreases emits a PRICE_INCREASE candidate for a recurring
\* series iff the series has at least two members, the amount of the member
\* created last is strictly greater than the amount of the member created
\* next to last, and no existing PRICE_INCREASE insight has the id of the
\* last member as related_expense_id; the candidate has that id as
\* related_expense_id and PRICE_INCREASE_<id> as key, and nothing else is
\* emitted.
C15_PriceIncrease ==
    LET out == checkPriceIncreases(argExpenses, argExisting)
    IN  enginePc = "ready" =>
        /\ \A i \in 1..Len(argExpenses) :
              expectsPriceIncrease(i)
                  <=> \E k \in 1..Len(out) : out[k] = priceIncreaseDraft(i)
        /\ \A k \in 1..Len(out) :
              \E i \in 1..Len(argExpenses) :
                  expectsPriceIncrease(i) /\ out[k] = priceIncreaseDraft(i)
        /\ \A k, l \in 1..Len(out) : k # l => out[k] # out[l]

\* A run has returned whose expenses hold a series with an increase, listed
\* oldest member first, and the candidate for its last member was emitted.
C15_Witness ==
    /\ enginePc = "done"
    /\ \E i \in 1..Len(argExpenses) :
          /\ expectsPriceIncrease(i)
          /\ i > 1
          /\ \E k \in 1..Len(engineBatch) :
                engineBatch[k] = stamp(priceIncreaseDraft(i), userId)

\* C19: runArvsEngine leaves its three input collections unchanged: from its
\* call to its return the expenses, budgets and existingInsights arrays hold
\* the same elements in the same order (the sort of the price evaluator does
\* not reorder the caller's expenses).
C19_InputsUnchanged ==
    [][ (enginePc # "done" /\ enginePc' # enginePc)
            => /\ argExpenses' = argExpenses
               /\ argBudgets' = argBudgets
               /\ argExisting' = argExisting ]_vars

\* A run has returned on expenses that list a series of two oldest first,
\* the order the evaluator's sort reverses.
C19_Witness ==
    /\ enginePc = "done"
    /\ \E i, j \in 1..Len(argExpenses) :
          /\ i < j
          /\ j \in seriesOf(i)
          /\ argExpenses[i].created_at < argExpenses[j].created_at

samePair(a, b) ==
    /\ a.insight_type = b.insight_type
    /\ a.related_category = b.related_category

\* C1: after any sequence of engine cycles in which each cycle completes
\* (insert and insight re-read) before the next one starts, and with no
\* insight deleted, the insights table never holds two insights with the
\* same (insight_type, related_category) pair.
C1_NoDuplicatePair ==
    sequential =>
        \A i, j \in 1..Len(dbInsights) :
            i # j => ~samePair(dbInsights[i], dbInsights[j])

\* C2: over any sequence of engine cycles (expenses may be added between
\* cycles, no insight is deleted), for every expense id the insights table
\* holds at most one PRICE_INCREASE insight with that related_expense_id.
C2_OnePriceIncreasePerExpense ==
    sequential =>
        \A i, j \in 1..Len(dbInsights) :
            (/\ i # j
             /\ dbInsights[i].insight_type = "PRICE_INCREASE"
             /\ dbInsights[j].insight_type = "PRICE_INCREASE")
                => dbInsights[i].related_expense_id
                       # dbInsights[j].related_expense_id

\* C5: when the batch insert fails, runArvsEngine returns false (it throws
\* nothing), the caller issues no re-read, and the step leaves the insights
\* table, the in-memory insights and the cached insights as they were; the
\* failed batch is dropped with its run.
C5_FailedInsertLeavesNoTrace ==
    [][ (lastInsert'.made /\ lastInsert'.error)
            => /\ lastInsert'.returned = "false"
               /\ dbInsights' = dbInsights
               /\ insights' = insights
               /\ cache' = cache
               /\ invocations' = << >>
               /\ \E k \in 1..Len(runs) :
                     /\ runs[k].phase = "inserting"
                     /\ runs' = removeAt(runs, k) ]_vars

\* An insert failed while the table and the in-memory insights already held
\* an insight and another run was in flight.
C5_Witness ==
    /\ lastInsert.made
    /\ lastInsert.error
    /\ lastInsert.returned = "false"
    /\ Len(dbInsights) > 0
    /\ Len(insights) > 0
    /\ Len(runs) > 0

rowsOf(c) ==
    { i \in 1..Len(dbInsights) :
        /\ dbInsights[i].user_id = c.user_id
        /\ dbInsights[i].insight_type = c.insight_type
        /\ dbInsights[i].related_category = c.related_category }

\* C7: when two overlapping engine cycles compute the same candidate from the
\* same snapshot and both insert it, the table ends with exactly one insight
\* for that (user, kind, deduplication key); neither cycle is reported as
\* failed and the other records of each batch are persisted.
C7_ConflictIsNoOp ==
    \A i, j \in 1..Len(runs) :
        (/\ i # j
         /\ runs[i].snap = runs[j].snap
         /\ runs[i].phase = "rereading"
         /\ runs[j].phase = "rereading")
            => \A c \in Range(runs[i].batch) \cap Range(runs[j].batch) :
                  Cardinality(rowsOf(c)) = 1

\* C8: at most one runArvsEngine invocation is in flight at any time: the
\* effect starts no engine run while the insert or the re-read of a previous
\* run is pending.
C8_OneRunInFlight == Len(runs) <= 1

\* C9: the application invokes runArvsEngine only on data read from the
\* backend by a successful refresh, with a session, online and with at least
\* one expense; never on data that came from the local cache.
C9_InvokedOnFreshDataOnly ==
    \A i \in 1..Len(invocations) :
        /\ invocations[i].session
        /\ ~invocations[i].offline
        /\ invocations[i].count > 0
        /\ invocations[i].from = "backend"


\* C18: every engine run only adds rows to the insights table: each insight
\* in the table before a step is in it afterwards, at the same place and with
\* every field unchanged; no step updates or deletes a row.
C18_StoreOnlyGrows ==
    [][ /\ Len(dbInsights') >= Len(dbInsights)
        /\ \A i \in 1..Len(dbInsights) : dbInsights'[i] = dbInsights[i] ]_vars

\* An insert has just succeeded on a table that held an insight already.
C18_Witness ==
    /\ lastInsert.made
    /\ ~lastInsert.error
    /\ Len(runs) > 0
    /\ \A k \in 1..Len(runs) :
          runs[k].phase = "rereading" => Len(dbInsights) > Len(runs[k].batch)
    /\ \E k \in 1..Len(runs) : runs[k].phase = "rereading"

(***************************************************************************)
(* Claims settled on free-text descriptions and categories (KeySpec).      *)
(***************************************************************************)
\* checkPriceIncreases puts the recurring expenses i and j in one group.
sameGroup(i, j) ==
    /\ isRecurring(argExpenses[i])
    /\ isRecurring(argExpenses[j])
    /\ getRecurringKey(argExpenses[i]) = getRecurringKey(argExpenses[j])

\* C16: two recurring expenses are placed in the same series iff they have
\* equal category and equal description, a missing description counting as
\* the empty string, whatever the description and category strings are.
C16_SeriesByDescriptionAndCategory ==
    \A i, j \in 1..Len(argExpenses) :
        (isRecurring(argExpenses[i]) /\ isRecurring(argExpenses[j]))
            => (sameGroup(i, j)
                  <=> /\ argExpenses[i].category = argExpenses[j].category
                      /\ descriptionText(argExpenses[i])
                            = descriptionText(argExpenses[j]))


(***************************************************************************)
(* Claims settled on the harness over cycles (SeriesSpec).                 *)
(***************************************************************************)
\* The position in argExpenses of the expense with the given id.
positionOf(id) == CHOOSE i \in 1..Len(argExpenses) : argExpenses[i].id = id

\* Expense i is newer than every other member of its series.
newestOfSeries(i) ==
    \A j \in seriesOf(i) \ {i} :
        argExpenses[j].created_at < argExpenses[i].created_at

\* C17: once a newer expense is added to a recurring series, no later cycle
\* emits a PRICE_INCREASE candidate linked to an older member: in every
\* cycle a candidate is linked to the newest member of its series and that
\* member's amount is greater than the amount of the member before it, so an
\* increase not reported while it was the latest transition is not reported
\* later and a newer member with an unchanged amount yields no candidate.
C17_OnlyLatestTransition ==
    enginePc # "ready"
        => \A k \in 1..Len(engineBatch) :
              engineBatch[k].insight_type = "PRICE_INCREASE"
                  => LET i == positionOf(engineBatch[k].related_expense_id[1])
                     IN  /\ newestOfSeries(i)
                         /\ \E p \in seriesOf(i) \ {i} :
                               /\ latestIn(p, seriesOf(i) \ {i})
                               /\ argExpenses[i].amount > argExpenses[p].amount

\* A run has returned no candidate on a series of three whose second member
\* raised the amount, whose third member kept it, and whose increase was
\* never reported.
C17_Witness ==
    /\ enginePc = "done"
    /\ engineBatch = << >>
    /\ argExisting = << >>
    /\ Len(argExpenses) = 3
    /\ seriesOf(1) = {1, 2, 3}
    /\ argExpenses[1].amount = argExpenses[2].amount
    /\ argExpenses[2].amount > argExpenses[3].amount


C30_BatchPairsDistinct ==
    enginePc # "ready"
    => \A i, j \in 1..Len(engineBatch) :
          i # j => ~samePair(engineBatch[i], engineBatch[j])

(***************************************************************************)
(* Further claims settled on the application (Spec).                       *)
(***************************************************************************)
rereading(rs) == { k \in 1..Len(rs) : rs[k].phase = "rereading" }

\* The in-memory insights hold a row for every record of the batch.
inMemory(batch, rows) ==
    \A i \in 1..Len(batch) :
        \E k \in 1..Len(rows) :
            /\ rows[k].insight_type = batch[i].insight_type
            /\ rows[k].related_category = batch[i].related_category
            /\ rows[k].related_expense_id = batch[i].related_expense_id
            /\ rows[k].user_id = batch[i].user_id

\* C22: whenever runArvsEngine returns true the application issues a re-read
\* of the insights, and when that re-read succeeds the in-memory insights
\* contain every insight the run inserted; when runArvsEngine returns false
\* no re-read is issued.
C22_RereadAfterTrue ==
    [][ /\ (lastInsert'.made /\ lastInsert'.returned = "true")
            => \E k \in 1..Len(runs) :
                  /\ runs[k].phase = "inserting"
                  /\ Len(runs') = Len(runs)
                  /\ runs'[k] = [runs[k] EXCEPT !.phase = "rereading"]
        /\ (lastInsert'.made /\ lastInsert'.returned = "false")
            => Cardinality(rereading(runs')) = Cardinality(rereading(runs))
        /\ (lastReread'.made /\ ~lastReread'.error)
            => inMemory(lastReread'.run[1].batch, insights')
      ]_vars

C22_Witness ==
    /\ lastReread.made
    /\ ~lastReread.error
    /\ Len(lastReread.run[1].batch) = 2
    /\ Len(insights) = 2

isBudgetKey(r, key) ==
    r.insight_type = "BUDGET_WARNING" /\ r.related_category = key

\* C24: within one month and one category the store holds at most one
\* insight with the 80-key and at most one with the 100-key, and when both
\* exist the one with the 80-key was created first: an 80-key insight is
\* never created after a 100-key insight exists.  Stated for histories in
\* which every cycle completed before the next one started.
C24_EightyBeforeHundred ==
    sequential
    => \A c \in FormCategories :
          LET key80 == key80Of(c, ThisMonth)
              key100 == key100Of(c, ThisMonth)
          IN  \A i, j \in 1..Len(dbInsights) :
                 /\ (i # j /\ isBudgetKey(dbInsights[i], key80))
                       => ~isBudgetKey(dbInsights[j], key80)
                 /\ (i # j /\ isBudgetKey(dbInsights[i], key100))
                       => ~isBudgetKey(dbInsights[j], key100)
                 /\ (isBudgetKey(dbInsights[i], key80)
                     /\ isBudgetKey(dbInsights[j], key100))
                       => i < j

\* C27: whenever the application invokes runArvsEngine, the existingInsights
\* it passes contain every insight that an earlier completed engine cycle
\* persisted and that is still in the store: no load of the cache during a
\* refresh replaces the in-memory insights with a list that omits such an
\* insight before the engine runs.  Stated for histories in which every
\* cycle completed (insert and successful re-read) before the next started,
\* so that every row of the table is the row of a completed cycle.
C27_EngineGivenStoredInsights ==
    sequential
    => \A i \in 1..Len(invocations) :
          \A k \in 1..Len(dbInsights) :
              \E e \in 1..Len(invocations[i].existing) :
                  invocations[i].existing[e].id = dbInsights[k].id

(***************************************************************************)
(* Claims settled on the application left alone after a refresh            *)
(* (ChainSpec).                                                            *)
(***************************************************************************)
\* C28: after one data refresh and with no further action of the user, the
\* chain run -> insert -> re-read -> state update -> run ends: a state with
\* no request and no engine run pending is reached and kept; and a re-read
\* that returns the store's content is followed by at most one further run,
\* which inserts nothing (it returns false).
C28_ChainTerminates ==
    /\ <>[](runs = << >> /\ fetches = 0)
    /\ [][ (lastReread'.made /\ ~lastReread'.error)
              => /\ Len(invocations') <= 1
                 /\ Len(runs') = Len(runs) - 1 ]_vars

C28_Witness ==
    /\ lastReread.made
    /\ ~lastReread.error
    /\ Len(invocations) = 1
    /\ runs = << >>
    /\ fetches = 0
    /\ Len(insights) = 2

(***************************************************************************)
(* Claims settled on the budgets page (PageSpec).                          *)
(***************************************************************************)
\* C29: after any sequence of add-budget and delete-budget operations from
\* an empty list, the list holds at most one budget per category, every
\* budget has a limit above 0 and the id 'monthly-<category>'; and an add for
\* a category that has a budget, or with a limit that is not positive,
\* leaves the list (and what is saved of it) unchanged.
C29_BudgetsWellFormed ==
    /\ \A i, j \in 1..Len(budgets) :
          i # j => budgets[i].category # budgets[j].category
    /\ \A i \in 1..Len(budgets) :
          /\ budgets[i].limit > 0
          /\ budgets[i].id = "monthly-" \o budgets[i].category
    /\ \A category \in PageCategories, limit \in PageLimits :
          (\/ limit <= 0
           \/ \E i \in 1..Len(budgets) : budgets[i].category = category)
          => /\ handleAddBudget(Cur, category, limit).budgets = budgets
             /\ handleAddBudget(Cur, category, limit).savedBudgets = savedBudgets

C29_Witness ==
    /\ Len(budgets) = 3
    /\ budgets[1].category = "Rent"
    /\ budgets[3].limit = 9
    /\ savedBudgets = << budgets >>

(***************************************************************************)
(* Claims settled on successive cycles over one snapshot (RetrySpec,       *)
(* DeleteSpec).                                                            *)
(***************************************************************************)
\* The store's insights hold a row for every record of the batch.
persisted(batch) ==
    \A i \in 1..Len(batch) :
        \E k \in 1..Len(argExisting) :
            /\ argExisting[k].insight_type = batch[i].insight_type
            /\ argExisting[k].related_category = batch[i].related_category
            /\ argExisting[k].related_expense_id = batch[i].related_expense_id
            /\ argExisting[k].user_id = batch[i].user_id

\* C21: after a cycle whose insert failed, a later cycle on the same expenses
\* and budgets, in the same month and with the store's insights unchanged,
\* computes the same candidates again and hands them to insert again; and
\* when cycles keep being started and the insert eventually succeeds, every
\* candidate of the failed cycle is eventually in the store.
C21_RetryAfterFailure ==
    /\ [] ( (engineRound = 2 /\ enginePc # "ready")
              => /\ firstBatch # << >>
                 /\ engineBatch = firstBatch
                 /\ insertCalls = << firstBatch >> )
    /\ ( (enginePc = "done" /\ insertError /\ firstBatch = engineBatch)
            ~> persisted(firstBatch) )

C21_Witness ==
    /\ engineRound = 2
    /\ enginePc = "done"
    /\ engineResult = "true"
    /\ Len(engineBatch) = 2
    /\ engineBatch = firstBatch


pairOf(r) == << r.insight_type, r.related_category >>

hasInsight(p) == \E k \in 1..Len(argExisting) : pairOf(argExisting[k]) = p

emitted(p) == \E i \in 1..Len(engineBatch) : pairOf(engineBatch[i]) = p

\* The pair is the 80-key of a budget whose 100-key has an insight: the
\* condition of an 80-key candidate includes that no 100-key insight exists.
hundredExists(p) ==
    \E j \in 1..Len(argBudgets) :
        /\ p = << "BUDGET_WARNING", key80Of(argBudgets[j].category, argNow) >>
        /\ hasInsight(<< "BUDGET_WARNING",
                         key100Of(argBudgets[j].category, argNow) >>)

\* C23: when the user deleted the only insight of a (kind, key) pair and the
\* pair's condition still holds in the next cycle's snapshot (here: the
\* expenses, the budgets and the month are those of the cycle that created
\* the insight and, for an 80-key, no insight with the 100-key exists), that
\* cycle emits a candidate for the pair again; and a cycle never emits a
\* candidate for a pair that has an insight in its snapshot.
C23_DeletionReenables ==
    enginePc # "ready"
    => /\ \A p \in deletedPairs :
             (~hasInsight(p) /\ ~hundredExists(p)) => emitted(p)
       /\ \A i \in 1..Len(engineBatch) : ~hasInsight(pairOf(engineBatch[i]))

C23_Witness ==
    /\ enginePc = "done"
    /\ engineResult = "true"
    /\ Cardinality(deletedPairs) = 1
    /\ Len(engineBatch) = 1
    /\ pairOf(engineBatch[1]) \in deletedPairs
    /\ Len(argExisting) = 1


(***************************************************************************)
(* Claims settled on the engine harness across months (ScopeSpec).         *)
(***************************************************************************)
\* The (threshold, category, year, month) a key was formed for.
scopeOf(T) == << T[1], T[2], getFullYear(T[3]), getMonth(T[3]) >>

\* The scopes whose insight suppresses the candidate of the budget today:
\* the 100-key when the spend is at least the limit, else both keys.
suppressingScopes ==
    LET c == argBudgets[1].category
    IN  IF monthSpend(c) >= argBudgets[1].limit
        THEN { scopeOf(<< 100, c, argNow >>) }
        ELSE { scopeOf(<< 100, c, argNow >>), scopeOf(<< 80, c, argNow >>) }

\* The candidates of the budget today when no insight suppresses them.
unsuppressed ==
    LET c == argBudgets[1].category
    IN  IF monthSpend(c) >= argBudgets[1].limit
        THEN << stamp(draft("BUDGET_WARNING", key100Of(c, argNow), << >>), userId) >>
        ELSE IF monthSpend(c) * 100 >= 80 * argBudgets[1].limit
        THEN << stamp(draft("BUDGET_WARNING", key80Of(c, argNow), << >>), userId) >>
        ELSE << >>

\* C26: the budget keys are scoped to (threshold, category, year, month): two
\* different scopes never give the same key, so an existing BUDGET_WARNING
\* formed for another category, another month of any year or the other
\* threshold does not count as the existing insight of a key, and a
\* condition that holds again in a new month is reported again.
C26_KeysScoped ==
    (enginePc # "ready" /\ engineRound = 1 /\ argExisting # << >>)
    => \A T \in ScopeTuples :
          argExisting[1].related_category = keyOfTuple(T)
          => /\ \A th \in {80, 100} :
                   LET today == << th, argBudgets[1].category, argNow >>
                   IN  keyOfTuple(today) = keyOfTuple(T)
                          => scopeOf(today) = scopeOf(T)
             /\ scopeOf(T) \notin suppressingScopes
                   => engineBatch = unsuppressed

C26_Witness ==
    /\ enginePc = "done"
    /\ engineRound = 1
    /\ engineResult = "true"
    /\ argExisting # << >>
    /\ \E d \in ScopeDays :
          /\ getMonth(d) # getMonth(argNow)
          /\ argExisting[1].related_category
                = key100Of(argBudgets[1].category, d)
    /\ engineBatch[1].related_category = key100Of(argBudgets[1].category, argNow)

=============================================================================
